---- MODULE Spec2Model ----
(***************************************************************************)
(* Model of pyfr/backends/base/types.py: the backend-independent matrix,   *)
(* row-slice, matrix-bank, view, MPI-view and queue types.                 *)
(*                                                                         *)
(* A client holds one object at a time in `obj`.  Every step is one call   *)
(* of a constructor or of a method of the held object; `call` records the  *)
(* last call with its arguments and outcome, `prevErr` the kind of the     *)
(* latest misuse failure before it, `ran` the kernels the backend has run. *)
(***************************************************************************)
EXTENDS Integers, Sequences, FiniteSets, TLC

VARIABLES obj, call, prevErr, ran, nextId

vars == <<obj, call, prevErr, ran, nextId>>

(***************************** bounds **************************************)

\* Largest number of points of a view (length of matmap).
MaxPoints == 2
\* Largest number of matrices handed to a bank.
MaxBank == 2
\* Row bounds p, q of a row slice range over -1 .. MaxPQ.
MaxPQ == 4
\* Number of kernels that may be created for one queue.
MaxUnits == 6
\* Largest number of kernels handed to one queue call.
MaxSupply == 2

(************************ Python conventions *******************************)

\* a[idx] on a Python list of length n is defined for -n <= idx < n.
PyValidIdx(idx, n) == -n <= idx /\ idx < n

\* a[idx] for a valid idx; sequences here are 1-based.
PyIndex(s, idx) == s[(IF idx < 0 THEN idx + Len(s) ELSE idx) + 1]

\* The outcome of a call: a returned object, or a raised exception.
NoObj == [type |-> "None"]
Ok(o) == [exc |-> "none", cls |-> "none", msg |-> "", obj |-> o]
Raise(cls, kind, msg) == [exc |-> kind, cls |-> cls, msg |-> msg, obj |-> NoObj]

SeqsUpTo(S, n) == UNION {[1..k -> S] : k \in 0..n}

(****************************** MatrixBase *********************************)

\* np.dtype(dtype).itemsize
ItemSize(dtype) == IF dtype = "float64" THEN 8 ELSE 4

\* MatrixBase.__init__ together with the layout fields a backend's matrix
\* class sets (nrow, ncol, leaddim, leadsubdim, basedata, offset).
\* `id` is the identity of the Python object, `cls` its class.
Matrix(id, cls, base_tags, dtype, nrow, ncol, leaddim, leadsubdim, basedata, offset, tags) ==
    [type |-> "Matrix", id |-> id, cls |-> cls,
     dtype |-> dtype, itemsize |-> ItemSize(dtype),
     nrow |-> nrow, ncol |-> ncol, leaddim |-> leaddim, leadsubdim |-> leadsubdim,
     basedata |-> basedata, offset |-> offset,
     tags |-> base_tags \cup tags]

\* MatrixBase.pitch / MatrixRSlice.pitch
pitch(m) == m.leaddim * m.itemsize

\* MatrixBase.traits / MatrixRSlice.traits
traits(m) == <<m.nrow, m.leaddim, m.leadsubdim, m.dtype>>

\* The matrices the client has at hand.  A1 and A2 agree in traits and tags;
\* A3 has another shape, leading dimension and offset; A4 lives in another
\* allocation and carries another tag; A5 has another element type; A6 is of
\* another backend's matrix class.
A1 == Matrix(1, "matrix_cls", {"dense"}, "float64", 2, 3, 4, 3, 1, 0, {})
A2 == Matrix(2, "matrix_cls", {"dense"}, "float64", 2, 3, 4, 3, 1, 8, {})
A3 == Matrix(3, "matrix_cls", {"dense"}, "float64", 3, 5, 8, 5, 1, 16, {})
A4 == Matrix(4, "matrix_cls", {"dense"}, "float64", 2, 3, 4, 3, 2, 0, {"align"})
A5 == Matrix(5, "matrix_cls", {"dense"}, "float32", 2, 3, 4, 3, 1, 40, {})
A6 == Matrix(6, "other_cls", {"dense"}, "float64", 2, 3, 4, 3, 1, 48, {})

Matrices == {A1, A2, A3, A4, A5, A6}
ViewMatrices == {A1, A3, A4, A5, A6}
TagSets == {{}, {"mpi"}}

(****************************** MatrixRSlice *******************************)

\* RSliceBoundsOk with the upper bound off by one (q >= mat.nrow rejected).
RSliceBoundsOkStrict(mat, p, q) == ~(p < 0 \/ q >= mat.nrow \/ q < p)

\* The bounds test of MatrixRSlice.__init__ (the negation of the raise guard).
RSliceBoundsOk(mat, p, q) == ~(p < 0 \/ q > mat.nrow \/ q < p)

\* MatrixRSlice.__init__(backend, mat, p, q)
MatrixRSlice_init(mat, p, q) ==
    IF ~RSliceBoundsOk(mat, p, q)
    THEN Raise("rslice_bounds", "ValueError", "Invalid row slice")
    ELSE Ok([type |-> "MatrixRSlice", parent |-> mat,
             nrow |-> q - p, ncol |-> mat.ncol,
             dtype |-> mat.dtype, itemsize |-> mat.itemsize,
             leaddim |-> mat.leaddim, leadsubdim |-> mat.leadsubdim,
             tags |-> mat.tags \cup {"slice"}])

\* Matrix.rslice(p, q): backend.matrix_rslice(self, p, q), which constructs
\* the backend's MatrixRSlice.
Matrix_rslice(mat, p, q) == MatrixRSlice_init(mat, p, q)

(******************************* MatrixBank ********************************)

\* any(m.traits != mats[0].traits for m in mats[1:])
BankTraitsDiffer(mats) == \E k \in 2..Len(mats) : traits(mats[k]) # traits(mats[1])

\* BankTagsDiffer comparing the traits a second time instead of the tags.
BankTagsDifferAsTraits(mats) == BankTraitsDiffer(mats)

\* any(m.tags != mats[0].tags for m in mats[1:])
BankTagsDiffer(mats) == \E k \in 2..Len(mats) : mats[k].tags # mats[1].tags

\* MatrixBank.__init__(backend, mats, initbank, tags)
MatrixBank_init(mats, initbank, tags) ==
    IF BankTraitsDiffer(mats)
    THEN Raise("bank_members", "ValueError", "Matrices in a bank must be homogeneous")
    ELSE IF BankTagsDiffer(mats)
    THEN Raise("bank_members", "ValueError", "Matrices in a bank must share tags")
    ELSE IF Len(mats) = 0
    THEN Raise("other", "IndexError", "list index out of range")
    ELSE IF ~PyValidIdx(initbank, Len(mats))
    THEN Raise("other", "IndexError", "list index out of range")
    ELSE Ok([type |-> "MatrixBank",
             tags |-> tags \cup mats[1].tags,
             _mats |-> mats,
             _curr_idx |-> initbank,
             _curr_mat |-> PyIndex(mats, initbank)])

\* MatrixBank.__len__
MatrixBank_len(bank) == Len(bank._mats)

\* MatrixBank.__getitem__(idx)
MatrixBank_getitem(bank, idx) ==
    IF PyValidIdx(idx, Len(bank._mats))
    THEN Ok(PyIndex(bank._mats, idx))
    ELSE Raise("other", "IndexError", "list index out of range")

\* Attributes found on the bank itself; __getattr__ is not consulted for them.
BankOwnAttrs == {"tags", "active"}

\* getattr(matrix, attr)
MatrixAttr(m, attr) ==
    CASE attr = "traits" -> traits(m)
      [] attr = "pitch" -> <<pitch(m)>>
      [] attr = "offset" -> <<m.offset>>
      [] attr = "id" -> <<m.id>>
      [] attr = "tags" -> <<m.tags>>

\* MatrixBank.active (getter)
MatrixBank_active(bank) == bank._curr_idx

\* MatrixBank.__getattr__(attr): forwards to the current matrix
MatrixBank_getattr(bank, attr) == MatrixAttr(bank._curr_mat, attr)

\* bank.<attr> by Python's lookup: the bank's own attributes first
BankLookup(bank, attr) ==
    CASE attr = "tags" -> <<bank.tags>>
      [] attr = "active" -> <<MatrixBank_active(bank)>>
      [] OTHER -> MatrixBank_getattr(bank, attr)

\* MatrixBank.rslice raising the error kind of the other bank failures.
MatrixBank_rsliceValueError(bank, p, q) ==
    Raise("bank_slice", "ValueError", "Matrix banks can not be sliced")

\* MatrixBank.rslice(p, q)
MatrixBank_rslice(bank, p, q) ==
    Raise("bank_slice", "RuntimeError", "Matrix banks can not be sliced")

\* The setter without its second assignment: the index moves, the current
\* matrix does not.
MatrixBank_active_setIndexOnly(bank, idx) ==
    IF PyValidIdx(idx, Len(bank._mats))
    THEN [Ok(NoObj) EXCEPT !.obj = [bank EXCEPT !._curr_idx = idx]]
    ELSE [Raise("other", "IndexError", "list index out of range")
             EXCEPT !.obj = [bank EXCEPT !._curr_idx = idx]]

\* MatrixBank.active (setter): the bank as the call leaves it, and how the call
\* ends.  _curr_idx is stored before _mats[idx] is evaluated.
MatrixBank_active_set(bank, idx) ==
    LET stored == [bank EXCEPT !._curr_idx = idx]
    IN  IF PyValidIdx(idx, Len(bank._mats))
        THEN [Ok(NoObj) EXCEPT !.obj =
                 [stored EXCEPT !._curr_mat = PyIndex(bank._mats, idx)]]
        ELSE [Raise("other", "IndexError", "list index out of range")
                 EXCEPT !.obj = stored]

(********************************* View ************************************)

\* ViewNVRow testing len(vshape) >= 2 instead of == 2.
ViewNVRowAtLeastTwo(vshape) == IF Len(vshape) >= 2 THEN vshape[Len(vshape) - 1] ELSE 1

\* vshape[-2] if len(vshape) == 2 else 1
ViewNVRow(vshape) == IF Len(vshape) = 2 THEN vshape[Len(vshape) - 1] ELSE 1

\* vshape[-1] if len(vshape) >= 1 else 1
ViewNVCol(vshape) == IF Len(vshape) >= 1 THEN vshape[Len(vshape)] ELSE 1

\* set(matmap.flat): the distinct matrices mapped onto
ViewMats(matmap) == {matmap[i] : i \in 1..Len(matmap)}

\* ViewValidate without the element type comparison.
ViewValidateNoDtype(mats, first) ==
    IF \E m \in mats : m.cls # "matrix_cls"
    THEN Raise("view_construction", "TypeError", "Incompatible matrix type for view")
    ELSE IF \E m \in mats : m.basedata # first.basedata
    THEN Raise("view_construction", "TypeError",
               "All viewed matrices must belong to the same allocation extent")
    ELSE Ok(NoObj)

\* The three validation steps of View.__init__, in their order; `first` is
\* self._mats[0], whose basedata and dtype are taken as the reference.
ViewValidate(mats, first) ==
    IF \E m \in mats : m.cls # "matrix_cls"
    THEN Raise("view_construction", "TypeError", "Incompatible matrix type for view")
    ELSE IF \E m \in mats : m.basedata # first.basedata
    THEN Raise("view_construction", "TypeError",
               "All viewed matrices must belong to the same allocation extent")
    ELSE IF \E m \in mats : m.dtype # first.dtype
    THEN Raise("view_construction", "TypeError", "Mixed data types are not supported")
    ELSE Ok(NoObj)

\* for m in self._mats: ix = np.where(matmap == m); offset[ix] = m.offset
ViewOffset(matmap) ==
    [i \in 1..Len(matmap) |-> (CHOOSE m \in ViewMats(matmap) : matmap[i] = m).offset]

\* ViewLeaddim taking one leading dimension, that of the first point's
\* matrix, for every point.
ViewLeaddimOfFirst(matmap) == [i \in 1..Len(matmap) |-> matmap[1].leaddim]

\* for m in self._mats: ix = np.where(matmap == m); leaddim[ix] = m.leaddim
ViewLeaddim(matmap) ==
    [i \in 1..Len(matmap) |-> (CHOOSE m \in ViewMats(matmap) : matmap[i] = m).leaddim]

\* (offset + rcmap[:,0]*leaddim + rcmap[:,1])[None,:]   -- shape (1, n)
ViewMapping(offset, leaddim, rcmap) ==
    << [i \in 1..Len(offset) |-> offset[i] + rcmap[i][1] * leaddim[i] + rcmap[i][2]] >>

\* (stridemap[:,0]*leaddim)[None,:]
ViewRStrides(stridemap, leaddim) ==
    << [i \in 1..Len(leaddim) |-> stridemap[i][1] * leaddim[i]] >>

\* stridemap[:,-1][None,:]
ViewCStrides(stridemap) ==
    << [i \in 1..Len(stridemap) |-> stridemap[i][Len(stridemap[i])]] >>

\* The attributes of a View; rstrides and cstrides exist only when assigned.
ViewObject(n, nvrow, nvcol, mats, basedata, refdtype, mapping, hasrs, rs, hascs, cs) ==
    IF hasrs /\ hascs THEN
        [type |-> "View", n |-> n, nvrow |-> nvrow, nvcol |-> nvcol, _mats |-> mats,
         basedata |-> basedata, refdtype |-> refdtype, mapping |-> mapping,
         rstrides |-> rs, cstrides |-> cs]
    ELSE IF hasrs THEN
        [type |-> "View", n |-> n, nvrow |-> nvrow, nvcol |-> nvcol, _mats |-> mats,
         basedata |-> basedata, refdtype |-> refdtype, mapping |-> mapping,
         rstrides |-> rs]
    ELSE IF hascs THEN
        [type |-> "View", n |-> n, nvrow |-> nvrow, nvcol |-> nvcol, _mats |-> mats,
         basedata |-> basedata, refdtype |-> refdtype, mapping |-> mapping,
         cstrides |-> cs]
    ELSE
        [type |-> "View", n |-> n, nvrow |-> nvrow, nvcol |-> nvcol, _mats |-> mats,
         basedata |-> basedata, refdtype |-> refdtype, mapping |-> mapping]

\* View.__init__(backend, matmap, rcmap, stridemap, vshape, tags), where
\* `first` is the element the set's iteration order puts first.  The
\* attributes rstrides and cstrides exist only when they are assigned.
View_init(matmap, rcmap, stridemap, vshape, first) ==
    LET mats == ViewMats(matmap)
        nvrow == ViewNVRow(vshape)
        nvcol == ViewNVCol(vshape)
        chk == ViewValidate(mats, first)
        offset == ViewOffset(matmap)
        leaddim == ViewLeaddim(matmap)
        mapping == ViewMapping(offset, leaddim, rcmap)
        rs == ViewRStrides(stridemap, leaddim)
        cs == ViewCStrides(stridemap)
    IN  IF mats = {}
        THEN Raise("other", "IndexError", "list index out of range")
        ELSE IF chk.exc # "none" THEN chk
        ELSE Ok(ViewObject(Len(matmap), nvrow, nvcol, mats, first.basedata, first.dtype,
                           mapping, nvrow > 1, rs, nvcol > 1, cs))

\* hasattr(o, name)
HasAttr(o, name) == name \in DOMAIN o

(******************************** MPIView **********************************)

\* backend.view(matmap, rcmap, stridemap, vshape, tags): the backend's View
backend_view(matmap, rcmap, stridemap, vshape, first) ==
    View_init(matmap, rcmap, stridemap, vshape, first)

\* backend.mpi_matrix(ioshape, tags=tags): a fresh MPIMatrix
backend_mpi_matrix(ioshape, tags) ==
    [type |-> "MPIMatrix", ioshape |-> ioshape, tags |-> {"dense"} \cup tags]

\* MPIViewShape with the point count first.
MPIViewShapePointsFirst(view) == <<view.n, view.nvrow, view.nvcol>>

\* The shape MPIView.__init__ asks the backend for
MPIViewShape(view) == <<view.nvrow, view.nvcol, view.n>>

\* MPIView.__init__(backend, matmap, rcmap, stridemap, vshape, tags).
\* `made` lists the objects the backend created during the call.
MPIView_init(matmap, rcmap, stridemap, vshape, tags, first) ==
    LET v == backend_view(matmap, rcmap, stridemap, vshape, first)
        mpimat == backend_mpi_matrix(MPIViewShape(v.obj), tags)
    IN  IF v.exc # "none"
        THEN [exc |-> v.exc, cls |-> v.cls, msg |-> v.msg, obj |-> NoObj, made |-> <<>>]
        ELSE [exc |-> "none", cls |-> "none", msg |-> "",
              obj |-> [type |-> "MPIView", view |-> v.obj,
                       n |-> v.obj.n, nvrow |-> v.obj.nvrow, nvcol |-> v.obj.nvcol,
                       mpimat |-> mpimat],
              made |-> <<v.obj, mpimat>>]

(********************************* Queue ***********************************)

\* Queue.__init__(backend): nothing is pending
Queue_init == [type |-> "Queue", items |-> <<>>]

\* Queue.__lshift__(iterable): appends, runs nothing
Queue_lshift(q, kernels) ==
    [obj |-> [q EXCEPT !.items = q.items \o kernels], run |-> <<>>]

\* Queue_mod running the kernels given before the pending ones.
Queue_modNewFirst(q, kernels) ==
    [obj |-> [q EXCEPT !.items = <<>>], run |-> kernels \o q.items]

\* Queue.__mod__(iterable): runs what is pending, then the kernels given
Queue_mod(q, kernels) ==
    [obj |-> [q EXCEPT !.items = <<>>], run |-> q.items \o kernels]

(***************************** the client **********************************)

NoArgs == [none |-> TRUE]
NoCall == [op |-> "none", args |-> NoArgs, exc |-> "none", cls |-> "none", msg |-> ""]
NoErr == [cls |-> "none", exc |-> "none"]

\* The failures this layer raises on misuse, by where they are raised.
StructuralClasses == {"rslice_bounds", "bank_members", "view_construction", "bank_slice"}

\* prevErr is the latest structural failure before the call in `call`.
ShiftErr == IF call.cls \in StructuralClasses
            THEN [cls |-> call.cls, exc |-> call.exc]
            ELSE prevErr

\* Inputs of the view constructors.
RCRows == {<<0, 2>>, <<2, 1>>}
StrideWidths == {1, 2}
StrideRows(w) == IF w = 1 THEN {<<2>>, <<3>>} ELSE {<<1, 3>>, <<3, 2>>}
VShapes == {<<>>, <<1>>, <<3>>, <<1, 2>>, <<2, 1>>, <<2, 2>>, <<2, 3, 2>>}
\* Attributes read through a bank.
Attrs == {"traits", "pitch", "offset", "id", "tags", "active"}

Init ==
    /\ obj = NoObj
    /\ call = NoCall
    /\ prevErr = NoErr
    /\ ran = <<>>
    /\ nextId = 1

\* The client holds nothing and is between calls.
Idle == obj = NoObj /\ call = NoCall

\* A constructor call: binds `obj` to the new object (to nothing, when the
\* constructor raises).
Construct(op, args, r) ==
    /\ obj' = r.obj
    /\ call' = [op |-> op, args |-> args, exc |-> r.exc, cls |-> r.cls, msg |-> r.msg]
    /\ UNCHANGED <<prevErr, ran, nextId>>

\* A method call that ends with outcome r and leaves the object as `after`.
Method(op, args, r, after) ==
    /\ obj' = after
    /\ call' = [op |-> op, args |-> args, before |-> obj,
                exc |-> r.exc, cls |-> r.cls, msg |-> r.msg]
    /\ prevErr' = ShiftErr

\* The client drops what it holds; the outcome of its last call is remembered
\* as the previous failure.
Release ==
    /\ ~Idle
    /\ obj' = NoObj
    /\ call' = NoCall
    /\ prevErr' = ShiftErr
    /\ ran' = <<>>
    /\ nextId' = 1

\* mat.rslice(p, q)
RSliceNew ==
    /\ Idle
    /\ \E mat \in Matrices, p \in -1..MaxPQ, q \in -1..MaxPQ :
        Construct("rslice", [mat |-> mat, p |-> p, q |-> q], Matrix_rslice(mat, p, q))

\* MatrixBank(backend, mats, initbank, tags)
BankNew ==
    /\ Idle
    /\ \E mats \in SeqsUpTo(Matrices, MaxBank), initbank \in -(MaxBank + 1)..MaxBank,
       tags \in TagSets :
        Construct("bank", [mats |-> mats, initbank |-> initbank, tags |-> tags],
                  MatrixBank_init(mats, initbank, tags))

\* bank.active = idx
BankSetActive ==
    /\ obj.type = "MatrixBank"
    /\ \E idx \in -(MaxBank + 1)..MaxBank :
        LET r == MatrixBank_active_set(obj, idx)
        IN  Method("active_set", [idx |-> idx], r, r.obj)
    /\ UNCHANGED <<ran, nextId>>

\* bank.rslice(p, q)
BankRSlice ==
    /\ obj.type = "MatrixBank"
    /\ \E p \in -1..MaxPQ, q \in -1..MaxPQ :
        Method("bank_rslice", NoArgs, MatrixBank_rslice(obj, p, q), obj)
    /\ UNCHANGED <<ran, nextId>>

\* The maps of a view over n points.
ViewArgs(n) ==
    {[matmap |-> mm, rcmap |-> rc, stridemap |-> sm, vshape |-> vs] :
        mm \in [1..n -> ViewMatrices], rc \in [1..n -> RCRows],
        sm \in UNION {[1..n -> StrideRows(w)] : w \in StrideWidths},
        vs \in VShapes}

\* The elements a set's iteration order may put first (any of them); an
\* empty set has none, and the constructor then fails before using one.
Firsts(matmap) == IF Len(matmap) = 0 THEN {NoObj} ELSE ViewMats(matmap)

\* backend.view(matmap, rcmap, stridemap, vshape, tags)
ViewNew ==
    /\ Idle
    /\ \E n \in 0..MaxPoints : \E a \in ViewArgs(n) : \E first \in Firsts(a.matmap) :
        Construct("view", a, View_init(a.matmap, a.rcmap, a.stridemap, a.vshape, first))

\* MPIView(backend, matmap, rcmap, stridemap, vshape, tags)
MPIViewNew ==
    /\ Idle
    /\ \E n \in 0..MaxPoints : \E a \in ViewArgs(n) : \E first \in Firsts(a.matmap) :
        \E tags \in TagSets :
        LET r == MPIView_init(a.matmap, a.rcmap, a.stridemap, a.vshape, tags, first)
        IN  Construct("mpiview", [maps |-> a, tags |-> tags, made |-> r.made], r)

\* Queue(backend)
QueueNew == Idle /\ Construct("queue", NoArgs, Ok(Queue_init))

\* The next k kernels; every kernel is a fresh object.
Fresh(k) == [i \in 1..k |-> nextId + i - 1]

\* queue << kernels
QueueLshift ==
    /\ obj.type = "Queue"
    /\ \E k \in 0..MaxSupply :
        /\ nextId + k <= MaxUnits + 1
        /\ LET r == Queue_lshift(obj, Fresh(k))
           IN  /\ Method("lshift", [kernels |-> Fresh(k), ranBefore |-> ran], Ok(NoObj), r.obj)
               /\ ran' = ran \o r.run
        /\ nextId' = nextId + k

\* queue % kernels
QueueMod ==
    /\ obj.type = "Queue"
    /\ \E k \in 0..MaxSupply :
        /\ nextId + k <= MaxUnits + 1
        /\ LET r == Queue_mod(obj, Fresh(k))
           IN  /\ Method("mod", [kernels |-> Fresh(k), ranBefore |-> ran], Ok(NoObj), r.obj)
               /\ ran' = ran \o r.run
        /\ nextId' = nextId + k

NextRSlice == RSliceNew \/ Release
NextBank == BankNew \/ BankSetActive \/ BankRSlice \/ Release
NextView == ViewNew \/ MPIViewNew \/ Release
NextQueue == QueueNew \/ QueueLshift \/ QueueMod \/ Release
NextErr == RSliceNew \/ BankNew \/ BankRSlice \/ ViewNew \/ Release
Next == RSliceNew \/ BankNew \/ BankSetActive \/ BankRSlice \/ ViewNew \/ MPIViewNew
        \/ QueueNew \/ QueueLshift \/ QueueMod \/ Release

SpecRSlice == Init /\ [][NextRSlice]_vars
SpecBank == Init /\ [][NextBank]_vars
SpecView == Init /\ [][NextView]_vars
SpecQueue == Init /\ [][NextQueue]_vars
SpecErr == Init /\ [][NextErr]_vars
Spec == Init /\ [][Next]_vars

(******************************* properties ********************************)

Succeeded(op) == call.op = op /\ call.exc = "none"

\* The maps the last view or MPI-view constructor call was given.
CallMaps == IF call.op = "mpiview" THEN call.args.maps ELSE call.args
\* The View that call built.
CallView == IF call.op = "mpiview" THEN obj.view ELSE obj

NoDuplicates(s) == \A i, j \in 1..Len(s) : s[i] = s[j] => i = j

\* C1: every View built over n points has a mapping of exactly n entries, and
\* entry i is offset + row*leaddim + col with the offset and leading dimension
\* of the matrix that point i refers to.
C1_Mapping ==
    Succeeded("view") =>
        LET a == call.args
            n == Len(a.matmap)
        IN  /\ obj.n = n
            /\ Len(obj.mapping) = 1
            /\ Len(obj.mapping[1]) = n
            /\ \A i \in 1..n :
                   obj.mapping[1][i] = a.matmap[i].offset
                                       + a.rcmap[i][1] * a.matmap[i].leaddim
                                       + a.rcmap[i][2]

\* A view over two matrices with different offsets and leading dimensions.
C1_Witness ==
    /\ Succeeded("view")
    /\ Len(call.args.matmap) = 2
    /\ call.args.matmap[1].leaddim # call.args.matmap[2].leaddim
    /\ call.args.matmap[1].offset # call.args.matmap[2].offset
    /\ call.args.rcmap[1] # call.args.rcmap[2]

\* Some referenced matrix is of the wrong class, or two differ in allocation
\* or in element type.
ViewMisuse(M) ==
    \/ \E m \in M : m.cls # "matrix_cls"
    \/ \E m1, m2 \in M : m1.basedata # m2.basedata
    \/ \E m1, m2 \in M : m1.dtype # m2.dtype

\* C2 as claimed: constructing a View fails with a type error whenever the
\* referenced matrices are misused, and succeeds whenever they are not.
C2_AsClaimed ==
    call.op \in {"view", "mpiview"} =>
        LET M == ViewMats(CallMaps.matmap)
        IN  /\ ViewMisuse(M) => call.exc = "TypeError" /\ obj = NoObj
            /\ ~ViewMisuse(M) => call.exc = "none" /\ CallView.type = "View"

\* C2 as amended: the same for a View over at least one point; over no point
\* the constructor fails although no matrix is misused.
C2_NonEmpty ==
    call.op \in {"view", "mpiview"} =>
        LET M == ViewMats(CallMaps.matmap)
        IN  /\ ViewMisuse(M) => call.exc = "TypeError" /\ obj = NoObj
            /\ (M # {} /\ ~ViewMisuse(M)) => call.exc = "none" /\ CallView.type = "View"
            /\ M = {} => call.exc = "IndexError" /\ obj = NoObj

\* Two matrices of the right class in one allocation with different element
\* types are rejected.
C2_Witness ==
    /\ call.op = "view"
    /\ call.exc = "TypeError"
    /\ \A m \in ViewMats(call.args.matmap) : m.cls = "matrix_cls"
    /\ \A m1, m2 \in ViewMats(call.args.matmap) : m1.basedata = m2.basedata
    /\ \E m1, m2 \in ViewMats(call.args.matmap) : m1.dtype # m2.dtype

\* C3: a row slice of A over (p, q) is constructed exactly when
\* 0 <= p <= q <= A.nrow, and then has the traits
\* (q - p, A.leaddim, A.leadsubdim, A.dtype); otherwise a ValueError is raised.
C3_RowSlice ==
    call.op = "rslice" =>
        LET A == call.args.mat
            p == call.args.p
            q == call.args.q
        IN  IF 0 <= p /\ p <= q /\ q <= A.nrow
            THEN /\ call.exc = "none"
                 /\ obj.type = "MatrixRSlice"
                 /\ traits(obj) = <<q - p, A.leaddim, A.leadsubdim, A.dtype>>
            ELSE /\ call.exc = "ValueError"
                 /\ obj = NoObj

\* The slice that ends at the parent's last row.
C3_Witness ==
    /\ Succeeded("rslice")
    /\ call.args.q = call.args.mat.nrow
    /\ call.args.p = 0
    /\ obj.nrow = call.args.mat.nrow

\* C4: a bank over a non-empty list fails when two members differ in traits or
\* in tags; with all members alike and a valid initial index it is constructed,
\* its length is the number of matrices given and bank[i] is the i-th of them.
C4_Bank ==
    (call.op = "bank" /\ Len(call.args.mats) > 0) =>
        LET mats == call.args.mats
            N == Len(mats)
            differ == \E i, j \in 1..N : \/ traits(mats[i]) # traits(mats[j])
                                         \/ mats[i].tags # mats[j].tags
        IN  /\ differ => call.exc # "none" /\ obj = NoObj
            /\ (~differ /\ PyValidIdx(call.args.initbank, N)) =>
                   /\ call.exc = "none"
                   /\ obj.type = "MatrixBank"
                   /\ MatrixBank_len(obj) = N
                   /\ \A i \in 0..(N - 1) : MatrixBank_getitem(obj, i).obj = mats[i + 1]

\* A bank of several distinct, alike matrices.
C4_Witness ==
    /\ Succeeded("bank")
    /\ Len(call.args.mats) >= 2
    /\ call.args.mats[1] # call.args.mats[2]
    /\ MatrixBank_len(obj) = Len(call.args.mats)

\* The attributes __getattr__ serves.
Forwarded == Attrs \ BankOwnAttrs

\* The bank reports index i and forwards to mats[i].
ActiveIs(bank, i) ==
    /\ MatrixBank_active(bank) = i
    /\ \A attr \in Forwarded :
           BankLookup(bank, attr) = MatrixAttr(PyIndex(bank._mats, i), attr)

\* C5: after an assignment of a valid index i to active, active is i and every
\* forwarded attribute is that of mats[i]; the members, their number and the
\* bank's tags are as before.  Before any assignment active is the initial index.
C5_Active ==
    /\ Succeeded("bank") => ActiveIs(obj, call.args.initbank)
    /\ (call.op = "active_set" /\ PyValidIdx(call.args.idx, Len(call.before._mats))) =>
           /\ call.exc = "none"
           /\ ActiveIs(obj, call.args.idx)
           /\ obj._mats = call.before._mats
           /\ MatrixBank_len(obj) = MatrixBank_len(call.before)
           /\ obj.tags = call.before.tags

\* A switch to another member.
C5_Witness ==
    /\ Succeeded("active_set")
    /\ obj._curr_mat # call.before._curr_mat
    /\ obj._curr_idx # call.before._curr_idx
    /\ obj._curr_idx = call.args.idx

\* C6: a flush-and-run runs the kernels pending at the call in the order they
\* were enqueued, then the kernels given, and leaves the queue empty; an
\* enqueue runs nothing; no kernel is ever run twice.
C6_Queue ==
    /\ call.op = "mod" =>
           /\ ran = call.args.ranBefore \o call.before.items \o call.args.kernels
           /\ obj.items = <<>>
    /\ call.op = "lshift" =>
           /\ ran = call.args.ranBefore
           /\ obj.items = call.before.items \o call.args.kernels
    /\ obj.type = "Queue" => NoDuplicates(ran \o obj.items)

\* A flush-and-run with kernels pending and kernels given.
C6_Witness ==
    /\ call.op = "mod"
    /\ Len(call.before.items) >= 2
    /\ Len(call.args.kernels) >= 1
    /\ Len(ran) = Len(call.args.ranBefore) + Len(call.before.items) + Len(call.args.kernels)

\* C7: constructing an MPIView makes the backend create exactly one View, from
\* the maps given, and exactly one staging matrix, of shape (nvrow, nvcol, n) of
\* that View; the MPIView's n, nvrow and nvcol are the View's.
C7_MPIView ==
    call.op = "mpiview" =>
        IF call.exc = "none"
        THEN /\ call.args.made = <<obj.view, obj.mpimat>>
             /\ obj.view.type = "View"
             /\ obj.view.n = Len(call.args.maps.matmap)
             /\ obj.mpimat.type = "MPIMatrix"
             /\ obj.mpimat.ioshape = <<obj.view.nvrow, obj.view.nvcol, obj.view.n>>
             /\ obj.n = obj.view.n
             /\ obj.nvrow = obj.view.nvrow
             /\ obj.nvcol = obj.view.nvcol
        ELSE call.args.made = <<>> /\ obj = NoObj

\* An MPIView whose three dimensions differ.
C7_Witness ==
    /\ Succeeded("mpiview")
    /\ obj.nvrow = 2
    /\ obj.nvcol = 1
    /\ obj.n = MaxPoints
    /\ obj.mpimat.ioshape = <<2, 1, MaxPoints>>

\* The last two misuse failures are of different classes.
TwoClasses ==
    /\ call.cls \in StructuralClasses
    /\ prevErr.cls \in StructuralClasses
    /\ call.cls # prevErr.cls

\* C8 as claimed: failures of different classes never have the same error kind.
C8_AsClaimed == TwoClasses => call.exc # prevErr.exc

\* C8 as amended: bad row-slice bounds and unlike bank members both raise
\* ValueError (with different messages), View misuse raises TypeError, slicing a
\* bank raises RuntimeError; failures of different classes differ in kind except
\* for that pair.
C8_Kinds ==
    /\ (call.op = "rslice" /\ call.exc # "none") =>
           /\ call.cls = "rslice_bounds"
           /\ call.exc = "ValueError"
           /\ call.msg = "Invalid row slice"
    /\ (call.op = "bank" /\ call.exc # "none" /\ call.cls # "other") =>
           /\ call.cls = "bank_members"
           /\ call.exc = "ValueError"
           /\ call.msg \in {"Matrices in a bank must be homogeneous",
                            "Matrices in a bank must share tags"}
    /\ (call.op = "view" /\ call.exc # "none" /\ call.cls # "other") =>
           /\ call.cls = "view_construction"
           /\ call.exc = "TypeError"
    /\ call.op = "bank_rslice" =>
           /\ call.cls = "bank_slice"
           /\ call.exc = "RuntimeError"
    /\ (TwoClasses /\ {call.cls, prevErr.cls} # {"rslice_bounds", "bank_members"}) =>
           call.exc # prevErr.exc

\* Slicing a bank fails after a View was refused.
C8_Witness ==
    /\ call.op = "bank_rslice"
    /\ call.exc = "RuntimeError"
    /\ prevErr.cls = "view_construction"

\* C9: nvrow is the first entry of a two-entry vshape and 1 otherwise, nvcol
\* the last entry of a non-empty vshape and 1 otherwise; rstrides exists exactly
\* when nvrow > 1 and is then stridemap[i].first * leaddim(matmap[i]); cstrides
\* exists exactly when nvcol > 1 and is then stridemap[i].last.
C9_Strides ==
    Succeeded("view") =>
        LET a == call.args
            vs == a.vshape
            n == Len(a.matmap)
        IN  /\ obj.nvrow = IF Len(vs) = 2 THEN vs[1] ELSE 1
            /\ obj.nvcol = IF Len(vs) > 0 THEN vs[Len(vs)] ELSE 1
            /\ HasAttr(obj, "rstrides") <=> obj.nvrow > 1
            /\ HasAttr(obj, "cstrides") <=> obj.nvcol > 1
            /\ HasAttr(obj, "rstrides") =>
                   /\ Len(obj.rstrides[1]) = n
                   /\ \A i \in 1..n :
                          obj.rstrides[1][i] = a.stridemap[i][1] * a.matmap[i].leaddim
            /\ HasAttr(obj, "cstrides") =>
                   /\ Len(obj.cstrides[1]) = n
                   /\ \A i \in 1..n :
                          obj.cstrides[1][i] = a.stridemap[i][Len(a.stridemap[i])]

\* A view with row strides and no column strides, over matrices with
\* different leading dimensions.
C9_Witness ==
    /\ Succeeded("view")
    /\ HasAttr(obj, "rstrides")
    /\ ~HasAttr(obj, "cstrides")
    /\ Len(call.args.matmap) = 2
    /\ obj.rstrides[1][1] # obj.rstrides[1][2]
    /\ Len(call.args.stridemap[1]) = 2

\* C10: the index a bank reports is always a position of its member list, the
\* current matrix is the member at that position, and a failed assignment to
\* active changes neither.
C10_ActiveConsistent ==
    /\ obj.type = "MatrixBank" =>
           /\ PyValidIdx(MatrixBank_active(obj), MatrixBank_len(obj))
           /\ obj._curr_mat = PyIndex(obj._mats, MatrixBank_active(obj))
    /\ (call.op = "active_set" /\ call.exc # "none") =>
           /\ MatrixBank_active(obj) = MatrixBank_active(call.before)
           /\ obj._curr_mat = call.before._curr_mat

====
